---- MODULE Spec2Model ----
(***************************************************************************)
(* Model of src/sdk-installer.ts: installAndroidSdk, installBaseSdk and    *)
(* acceptLicenses.  The bootstrap is one sequential async function; the    *)
(* model follows it from one awaited external command to the next.  Every  *)
(* awaited command (exec.exec, io.mkdirP, io.rmRF) either succeeds or      *)
(* rejects; a rejection propagates out of installAndroidSdk.               *)
(*                                                                         *)
(* Strings that the code takes apart (PATH, ANDROID_HOME) are sequences of *)
(* one-character strings, so that split, filter, includes and join are     *)
(* computed as JavaScript computes them.  Strings that are only passed on  *)
(* (URLs, package names, inputs) are TLA+ strings.                         *)
(***************************************************************************)
EXTENDS Integers, Sequences, FiniteSets, TLC

VARIABLES
  platform,    \* process.platform
  env,         \* process.env: ANDROID_HOME, ANDROID_SDK_HOME, PATH
  freshInput,  \* value of the action input 'fresh-sdk-installation'
  params,      \* arguments of the current installAndroidSdk call
  fs,          \* the filesystem under the SDK root and the working directory
  pc,          \* position of the current call
  log,         \* external effects of the current call, in order
  failedMsg,   \* message given to core.setFailed by the current call, or ""
  start,       \* fs and env as they were when the current call was made
  runs,        \* number of calls started so far
  prev,        \* how the previous call ended ("idle" before the first call)
  installed,   \* the local 'installed' of the current call, once assigned
  licenses     \* the local 'licenses' of the current call, once assigned

vars == <<platform, env, freshInput, params, fs, pc, log, failedMsg, start, runs, prev,
          installed, licenses>>

----------------------------------------------------------------------------
(* Bounds *)

MaxRuns == 2
MaxPathEntries == 3

----------------------------------------------------------------------------
(* Program constants *)

BUILD_TOOLS_VERSION == "30.0.0"
CMDLINE_TOOLS_URL_MAC == "https://dl.google.com/android/repository/commandlinetools-mac-6609375_latest.zip"
CMDLINE_TOOLS_URL_LINUX == "https://dl.google.com/android/repository/commandlinetools-linux-6609375_latest.zip"
BASE_ANDROID_SDK_URL_MAC == "https://dl.google.com/android/repository/sdk-tools-darwin-4333796.zip"
BASE_ANDROID_SDK_URL_LINUX == "https://dl.google.com/android/repository/sdk-tools-linux-4333796.zip"

----------------------------------------------------------------------------
(* JavaScript values *)

\* An environment variable is undefined or holds a string.
Undefined == <<>>
Some(v) == <<v>>
IsDefined(o) == o # Undefined
\* !o for an optional string: undefined and '' are both falsy.
Truthy(o) == o # Undefined /\ o[1] # <<>>
\* o || ''
OrEmpty(o) == IF Truthy(o) THEN o[1] ELSE <<>>
\* Truthiness of a plain string argument; "" stands for an omitted argument too.
Given(s) == s # ""

COLON == <<":">>
ANDROID == <<"A", "n", "d", "r", "o", "i", "d">>

\* String.prototype.includes
Includes(s, needle) ==
  \E i \in 1..(Len(s) - Len(needle) + 1) : SubSeq(s, i, i + Len(needle) - 1) = needle

\* String.prototype.split(':'): always at least one piece; '' gives [''].
RECURSIVE Split(_)
Split(s) ==
  IF \A i \in 1..Len(s) : s[i] # ":"
    THEN <<s>>
    ELSE LET i == CHOOSE k \in 1..Len(s) : s[k] = ":" /\ \A j \in 1..(k - 1) : s[j] # ":"
         IN  <<SubSeq(s, 1, i - 1)>> \o Split(SubSeq(s, i + 1, Len(s)))

\* Array.prototype.join(':'): [] gives ''.
RECURSIVE Join(_)
Join(a) ==
  IF a = <<>> THEN <<>>
  ELSE IF Len(a) = 1 THEN a[1]
  ELSE a[1] \o COLON \o Join(Tail(a))

----------------------------------------------------------------------------
(* Path strings *)

SDK_ROOT == <<"/", "s", "d", "k">>                       \* "/sdk", the ANDROID_HOME of the job
DIR_BIN == <<"/", "b", "i", "n">>                       \* "/bin"
DIR_TOOLS == <<"/", "t", "o", "o", "l", "s">>                \* "/tools"
DIR_TOOLS_BIN == <<"/", "t", "o", "o", "l", "s", "/", "b", "i", "n">>
DIR_PLATFORM_TOOLS == <<"/", "p", "l", "a", "t", "f", "o", "r", "m", "-", "t", "o", "o", "l", "s">>
DIR_PLATFORM_TOOLS_BIN == <<"/", "p", "l", "a", "t", "f", "o", "r", "m", "-", "t", "o", "o", "l", "s", "/", "b", "i", "n">>
DIR_SDK_HOME == <<"/", "s", "d", "k", "_", "h", "o", "m", "e">>
DIR_CMDLINE_TOOLS == <<"/", "c", "m", "d", "l", "i", "n", "e", "-", "t", "o", "o", "l", "s">>
UNDEFINED_TEXT == <<"u", "n", "d", "e", "f", "i", "n", "e", "d">>  \* `${undefined}`

\* entry => !entry.includes('Android')
NotAndroid(entry) == ~Includes(entry, ANDROID)

\* installBaseSdk: const extraPaths = `${androidHome}/bin:...`
ExtraPathDirs(androidHome) ==
  << androidHome \o DIR_BIN,
     androidHome \o DIR_TOOLS,
     androidHome \o DIR_TOOLS_BIN,
     androidHome \o DIR_PLATFORM_TOOLS,
     androidHome \o DIR_PLATFORM_TOOLS_BIN >>

ExtraPaths(androidHome) ==
  androidHome \o DIR_BIN \o COLON \o
  androidHome \o DIR_TOOLS \o COLON \o
  androidHome \o DIR_TOOLS_BIN \o COLON \o
  androidHome \o DIR_PLATFORM_TOOLS \o COLON \o
  androidHome \o DIR_PLATFORM_TOOLS_BIN

\* installBaseSdk: path.split(':').filter(...).join(':')
PathWithoutAndroid(path) == Join(SelectSeq(Split(path), NotAndroid))

\* installBaseSdk: the value given to core.exportVariable('PATH', ...)
ExportedPath(androidHome, pathVar) ==
  ExtraPaths(androidHome) \o COLON \o PathWithoutAndroid(OrEmpty(pathVar))

\* installAndroidSdk: the argument of core.addPath
CmdlineToolsPaths(androidHome) ==
  androidHome \o DIR_CMDLINE_TOOLS \o DIR_TOOLS \o COLON \o
  androidHome \o DIR_CMDLINE_TOOLS \o DIR_TOOLS_BIN \o COLON \o
  androidHome \o DIR_PLATFORM_TOOLS

\* core.addPath: process.env.PATH = `${inputPath}:${process.env.PATH}`
AddPath(inputPath, pathVar) ==
  inputPath \o COLON \o (IF IsDefined(pathVar) THEN pathVar[1] ELSE UNDEFINED_TEXT)

----------------------------------------------------------------------------
(* Inputs *)

Platforms == {"darwin", "linux", "win32"}
FreshInputs == {"", "true", "false"}          \* core.getInput gives "" when not configured
ApiLevels == {29, 30}
Targets == {"google_apis"}
Archs == {"x86_64"}
EmulatorBuilds == {"", "6110076"}             \* "" : no emulatorBuild argument
NdkVersions == {"", "21.0.6113669"}
CmakeVersions == {"", "3.10.2.4988404"}

Params ==
  [apiLevel : ApiLevels, target : Targets, arch : Archs,
   emulatorBuild : EmulatorBuilds, ndkVersion : NdkVersions, cmakeVersion : CmakeVersions]

NoParams ==
  [apiLevel |-> 0, target |-> "", arch |-> "", emulatorBuild |-> "", ndkVersion |-> "", cmakeVersion |-> ""]

PATH_OLD_ANDROID == <<"/", "A", "n", "d", "r", "o", "i", "d", ":", "/", "b", "i", "n">>
InitialPaths == {Undefined, Some(PATH_OLD_ANDROID)}

----------------------------------------------------------------------------
(* Filesystem *)

\* Contents of the two license marker files.
PREVIEW_LICENSE_HASH == "\n84831b9409646a918e30573bab4c9c91346d8abd"
ARM_DBT_LICENSE_HASH == "\n859f317696f67ef3d7f30a50a5560e7834b43903"
ABSENT == "absent"
OTHER_CONTENT == "other"

ColdFs ==
  [ root |-> FALSE,              \* <sdk-root> exists
    baseSdk |-> "none",          \* what of the base SDK archive is unpacked: none, partial, full
    sdkHome |-> FALSE,           \* <sdk-root>/sdk_home exists
    backups |-> <<>>,            \* the <sdk-root>/sdk_home.backup.<timestamp>, oldest first: what each holds
    repositoriesCfg |-> FALSE,   \* <sdk-root>/sdk_home/repositories.cfg exists
    licensesDir |-> FALSE,       \* <sdk-root>/licenses exists
    licensesAccepted |-> FALSE,  \* sdkmanager --licenses has run to completion
    cmdlineDir |-> FALSE,        \* <sdk-root>/cmdline-tools exists
    cmdlineTools |-> "none",     \* what of the command-line tools archive is unpacked
    previewLicense |-> ABSENT,   \* content of licenses/android-sdk-preview-license
    armDbtLicense |-> ABSENT,    \* content of licenses/android-sdk-arm-dbt-license
    emulator |-> {},             \* origins of the files under <sdk-root>/emulator; {} : no directory
    tmpZip |-> FALSE,            \* /tmp/android-sdk.zip exists
    cmdZip |-> FALSE,            \* ./commandlinetools.zip exists
    emuZip |-> "" ]              \* build id of ./emulator.zip, "" : no file

\* A runner on which the SDK was provisioned before the job.
WarmFs(withCmdline, preview, armDbt) ==
  [ColdFs EXCEPT !.root = TRUE, !.baseSdk = "full", !.sdkHome = TRUE, !.repositoriesCfg = TRUE,
                 !.licensesDir = TRUE, !.licensesAccepted = TRUE,
                 !.cmdlineDir = withCmdline,
                 !.cmdlineTools = IF withCmdline THEN "full" ELSE "none",
                 !.previewLicense = preview, !.armDbtLicense = armDbt,
                 !.emulator = {"old"}]

InitialFs ==
  {ColdFs} \cup
  { WarmFs(c, m[1], m[2]) :
      c \in BOOLEAN,
      m \in { <<ABSENT, ABSENT>>, <<OTHER_CONTENT, OTHER_CONTENT>>,
              <<PREVIEW_LICENSE_HASH, ARM_DBT_LICENSE_HASH>> } }

----------------------------------------------------------------------------
(* Decisions of installAndroidSdk *)

isOnMac == platform = "darwin"

\* Variant: only an unset ANDROID_HOME is caught, an empty one is not.
HomeMissing_UnsetOnly == env.ANDROID_HOME = Undefined

\* !process.env.ANDROID_HOME
HomeMissing == ~Truthy(env.ANDROID_HOME)

\* fs.existsSync(process.env.ANDROID_HOME)
SdkRootExists == env.ANDROID_HOME = Some(SDK_ROOT) /\ fs.root

\* Variant: the platform is not looked at.
NeedsOwnership_AnyPlatform == ~Given(freshInput)

\* !isOnMac && !freshInstall
NeedsOwnership == ~isOnMac /\ ~Given(freshInput)

\* Variant: the check looks for the downloaded archive, not the directory.
NeedsCmdlineTools_ChecksArchive == ~fs.cmdZip

\* !fs.existsSync(cmdlineToolsPath)
NeedsCmdlineTools == ~fs.cmdlineDir

\* Variant: the platform is not looked at.
WritesPreviewLicense_AnyPlatform == fs.previewLicense = ABSENT

\* !isOnMac && !fs.existsSync(sdkPreviewLicensePath)
WritesPreviewLicense == ~isOnMac /\ fs.previewLicense = ABSENT

\* Variant: the API level is not looked at.
WritesArmDbtLicense_AnyLevel == fs.armDbtLicense = ABSENT

\* apiLevel == 30 && !fs.existsSync(sdkArmDbtLicensePath)
WritesArmDbtLicense == params.apiLevel = 30 /\ fs.armDbtLicense = ABSENT

\* if (emulatorBuild)
UsesPinnedEmulator == Given(params.emulatorBuild)

BaseSdkUrl == IF isOnMac THEN BASE_ANDROID_SDK_URL_MAC ELSE BASE_ANDROID_SDK_URL_LINUX

CmdlineToolsUrl == IF isOnMac THEN CMDLINE_TOOLS_URL_MAC ELSE CMDLINE_TOOLS_URL_LINUX

EmulatorUrl ==
  << "https://dl.google.com/android/repository/emulator-",
     IF isOnMac THEN "darwin" ELSE "linux", "-", params.emulatorBuild, ".zip" >>

PackagesArg ==
  << "build-tools;" \o BUILD_TOOLS_VERSION, "platform-tools",
     "platforms;android-" \o ToString(params.apiLevel) >>

\* Variant: target and arch change places.
SystemImageArg_Swapped ==
  << "system-images;android-" \o ToString(params.apiLevel) \o ";" \o params.arch \o ";" \o params.target >>

SystemImageArg ==
  << "system-images;android-" \o ToString(params.apiLevel) \o ";" \o params.target \o ";" \o params.arch >>

\* if (ndkVersion)
InstallsNdk == Given(params.ndkVersion)

NdkArg == << "ndk;" \o params.ndkVersion >>

\* Variant: the second test repeats the first one's variable.
InstallsCmake_TestsNdkVersion == Given(params.ndkVersion)

\* if (cmakeVersion)
InstallsCmake == Given(params.cmakeVersion)

CmakeArg == << "cmake;" \o params.cmakeVersion >>

\* Variant: acceptLicenses ends without a return statement (undefined, falsy).
AcceptLicensesResult_NoReturn == FALSE

\* The values installBaseSdk and acceptLicenses return.
InstallBaseSdkResult == TRUE
AcceptLicensesResult == TRUE

\* if (!installed)
BaseInstallFailed(inst) == ~inst

\* Variant: the second check looks at the Base Installer's result only.
LicensesFailed_IgnoresLicenses(inst, lic) == ~inst

\* if (!installed || !licenses)
LicensesFailed(inst, lic) == ~inst \/ ~lic

----------------------------------------------------------------------------
(* External commands *)

Cmd(step, cmd, arg) == [step |-> step, cmd |-> cmd, arg |-> arg, ok |-> TRUE]

\* An awaited command that succeeds: its effect, then the next statement.
Succeeds(c, next, fsAfter) ==
  /\ log' = Append(log, c)
  /\ fs' = fsAfter
  /\ pc' = next

\* Variant: the rejection is swallowed and the command is run again.
Rejects_Retries(c, fsAfter) ==
  /\ log' = Append(log, [c EXCEPT !.ok = FALSE])
  /\ fs' = fsAfter
  /\ pc' = pc

\* An awaited command that rejects: the rejection leaves installAndroidSdk.
Rejects(c, fsAfter) ==
  /\ log' = Append(log, [c EXCEPT !.ok = FALSE])
  /\ fs' = fsAfter
  /\ pc' = "rejected"

Caller == UNCHANGED <<platform, freshInput, params, start, runs, prev>>

Frame == Caller /\ UNCHANGED <<installed, licenses>>

----------------------------------------------------------------------------
(* installAndroidSdk, lines 16-38: entry, ANDROID_HOME check, SDK root check *)

Invoke ==
  /\ pc \in {"idle", "done", "failed", "rejected"}
  /\ runs < MaxRuns
  /\ runs' = runs + 1
  /\ prev' = pc
  /\ start' = [fs |-> fs, env |-> env]
  /\ params' \in Params
  /\ log' = <<>>
  /\ IF HomeMissing
       THEN /\ failedMsg' = "ANDROID_HOME is a required environment variable and is not set."
            /\ pc' = "failed"
       ELSE /\ failedMsg' = ""
            /\ pc' = IF SdkRootExists THEN "ownership" ELSE "base_backup"
  /\ installed' = Undefined
  /\ licenses' = Undefined
  /\ UNCHANGED <<platform, env, freshInput, fs>>

----------------------------------------------------------------------------
(* installBaseSdk, lines 99-131 *)

\* Variant: the existing sdk_home is removed instead of renamed.
MovedAside_Removed(f) == [f EXCEPT !.sdkHome = FALSE, !.repositoriesCfg = FALSE]

\* line 110: mv <sdk-root>/sdk_home <sdk-root>/sdk_home.backup.<Date.now()>
MovedAside(f) ==
  [f EXCEPT !.sdkHome = FALSE, !.repositoriesCfg = FALSE,
            !.backups = Append(@, [repositoriesCfg |-> f.repositoriesCfg])]

\* lines 106-111: export ANDROID_SDK_HOME, move an existing sdk_home aside
BaseBackup ==
  /\ pc = "base_backup"
  /\ env' = [env EXCEPT !.ANDROID_SDK_HOME = Some(env.ANDROID_HOME[1] \o DIR_SDK_HOME)]
  /\ IF fs.sdkHome
       THEN \E ok \in BOOLEAN :
              IF ok
                THEN Succeeds(Cmd("base", "mv", <<"sdk_home">>), "base_curl", MovedAside(fs))
                ELSE Rejects(Cmd("base", "mv", <<"sdk_home">>), fs)
       ELSE /\ pc' = "base_curl"
            /\ UNCHANGED <<log, fs>>
  /\ UNCHANGED failedMsg
  /\ Frame

\* line 113: curl -L <url> -o /tmp/android-sdk.zip -s
BaseCurl ==
  /\ pc = "base_curl"
  /\ \/ Succeeds(Cmd("base", "curl", <<BaseSdkUrl>>), "base_unzip", [fs EXCEPT !.tmpZip = TRUE])
     \/ Rejects(Cmd("base", "curl", <<BaseSdkUrl>>), fs)
  /\ UNCHANGED <<env, failedMsg>>
  /\ Frame

\* line 114: unzip -q /tmp/android-sdk.zip -d <sdk-root>; a failing unzip may
\* have created the directory and unpacked part of the archive.
BaseUnzip ==
  /\ pc = "base_unzip"
  /\ \/ Succeeds(Cmd("base", "unzip", <<"android-sdk.zip">>), "base_rm",
                 [fs EXCEPT !.root = TRUE, !.baseSdk = "full"])
     \/ Rejects(Cmd("base", "unzip", <<"android-sdk.zip">>), fs)
     \/ Rejects(Cmd("base", "unzip", <<"android-sdk.zip">>),
                [fs EXCEPT !.root = TRUE, !.baseSdk = "partial"])
  /\ UNCHANGED <<env, failedMsg>>
  /\ Frame

\* line 115: rm /tmp/android-sdk.zip
BaseRm ==
  /\ pc = "base_rm"
  /\ \/ Succeeds(Cmd("base", "rm", <<"android-sdk.zip">>), "base_mkdir", [fs EXCEPT !.tmpZip = FALSE])
     \/ Rejects(Cmd("base", "rm", <<"android-sdk.zip">>), fs)
  /\ UNCHANGED <<env, failedMsg>>
  /\ Frame

\* lines 116-130: mkdir -p <sdk-root>/sdk_home, export PATH, return;
\* then lines 28-32 of installAndroidSdk check the returned value, installed.
BaseMkdirReturning(result) ==
  /\ pc = "base_mkdir"
  /\ \/ /\ log' = Append(log, Cmd("base", "mkdir", <<"sdk_home">>))
        /\ fs' = [fs EXCEPT !.sdkHome = TRUE]
        /\ env' = [env EXCEPT !.PATH = Some(ExportedPath(env.ANDROID_HOME[1], env.PATH))]
        /\ installed' = Some(result)
        /\ IF BaseInstallFailed(result)
             THEN /\ failedMsg' = "Could not install base Android SDK."
                  /\ pc' = "failed"
             ELSE /\ pc' = "lic_mkdir_home"
                  /\ UNCHANGED failedMsg
     \/ /\ Rejects(Cmd("base", "mkdir", <<"sdk_home">>), fs)
        /\ UNCHANGED <<env, failedMsg, installed>>
  /\ UNCHANGED licenses
  /\ Caller

BaseMkdir == BaseMkdirReturning(InstallBaseSdkResult)

----------------------------------------------------------------------------
(* acceptLicenses, lines 133-142 *)

\* line 137: mkdir -p ${process.env.ANDROID_SDK_HOME}
LicMkdirHome ==
  /\ pc = "lic_mkdir_home"
  /\ \/ Succeeds(Cmd("licenses", "mkdir", <<"sdk_home">>), "lic_touch",
                 IF env.ANDROID_SDK_HOME = Some(env.ANDROID_HOME[1] \o DIR_SDK_HOME)
                   THEN [fs EXCEPT !.sdkHome = TRUE] ELSE fs)
     \/ Rejects(Cmd("licenses", "mkdir", <<"sdk_home">>), fs)
  /\ UNCHANGED <<env, failedMsg>>
  /\ Frame

\* line 138: touch ${process.env.ANDROID_SDK_HOME}/repositories.cfg
LicTouch ==
  /\ pc = "lic_touch"
  /\ \/ /\ fs.sdkHome
        /\ Succeeds(Cmd("licenses", "touch", <<"repositories.cfg">>), "lic_mkdir_licenses",
                    [fs EXCEPT !.repositoriesCfg = TRUE])
     \/ Rejects(Cmd("licenses", "touch", <<"repositories.cfg">>), fs)
  /\ UNCHANGED <<env, failedMsg>>
  /\ Frame

\* line 139: mkdir -p <sdk-root>/licenses
LicMkdirLicenses ==
  /\ pc = "lic_mkdir_licenses"
  /\ \/ Succeeds(Cmd("licenses", "mkdir", <<"licenses">>), "lic_accept",
                 [fs EXCEPT !.root = TRUE, !.licensesDir = TRUE])
     \/ Rejects(Cmd("licenses", "mkdir", <<"licenses">>), fs)
  /\ UNCHANGED <<env, failedMsg>>
  /\ Frame

\* lines 140-141: yes 'y' | <sdk-root>/tools/bin/sdkmanager --licenses, return;
\* then lines 33-37 of installAndroidSdk check the returned value, licenses,
\* together with installed.
LicAcceptReturning(result) ==
  /\ pc = "lic_accept"
  /\ \/ /\ fs.baseSdk = "full"
        /\ log' = Append(log, Cmd("licenses", "sdkmanager-licenses", <<>>))
        /\ fs' = [fs EXCEPT !.licensesAccepted = TRUE]
        /\ licenses' = Some(result)
        /\ IF LicensesFailed(installed[1], result)
             THEN /\ failedMsg' = "Could not accept Android SDK licenses."
                  /\ pc' = "failed"
             ELSE /\ pc' = "ownership"
                  /\ UNCHANGED failedMsg
     \/ /\ Rejects(Cmd("licenses", "sdkmanager-licenses", <<>>), fs)
        /\ UNCHANGED <<failedMsg, licenses>>
  /\ UNCHANGED <<env, installed>>
  /\ Caller

LicAccept == LicAcceptReturning(AcceptLicensesResult)

----------------------------------------------------------------------------
(* installAndroidSdk, lines 40-97 *)

\* lines 40-46: sudo chown $USER:$USER <sdk-root> -R
Ownership ==
  /\ pc = "ownership"
  /\ IF NeedsOwnership
       THEN \E ok \in BOOLEAN :
              IF ok THEN Succeeds(Cmd("ownership", "chown", <<>>), "cmdline", fs)
                    ELSE Rejects(Cmd("ownership", "chown", <<>>), fs)
       ELSE /\ pc' = "cmdline"
            /\ UNCHANGED <<log, fs>>
  /\ UNCHANGED <<env, failedMsg>>
  /\ Frame

\* lines 48-52: io.mkdirP(<sdk-root>/cmdline-tools) when the directory is absent
CmdlineMkdir ==
  /\ pc = "cmdline"
  /\ IF NeedsCmdlineTools
       THEN \E ok \in BOOLEAN :
              IF ok THEN Succeeds(Cmd("cmdline-tools", "mkdirP", <<"cmdline-tools">>), "cmdline_curl",
                                  [fs EXCEPT !.root = TRUE, !.cmdlineDir = TRUE])
                    ELSE Rejects(Cmd("cmdline-tools", "mkdirP", <<"cmdline-tools">>), fs)
       ELSE /\ pc' = "markers"
            /\ UNCHANGED <<log, fs>>
  /\ UNCHANGED <<env, failedMsg>>
  /\ Frame

\* line 53: curl -fo commandlinetools.zip <url>
CmdlineCurl ==
  /\ pc = "cmdline_curl"
  /\ \/ Succeeds(Cmd("cmdline-tools", "curl", <<CmdlineToolsUrl>>), "cmdline_unzip",
                 [fs EXCEPT !.cmdZip = TRUE])
     \/ Rejects(Cmd("cmdline-tools", "curl", <<CmdlineToolsUrl>>), fs)
  /\ UNCHANGED <<env, failedMsg>>
  /\ Frame

\* line 54: unzip -q commandlinetools.zip -d <sdk-root>/cmdline-tools
CmdlineUnzip ==
  /\ pc = "cmdline_unzip"
  /\ \/ Succeeds(Cmd("cmdline-tools", "unzip", <<"commandlinetools.zip">>), "cmdline_rm",
                 [fs EXCEPT !.cmdlineDir = TRUE, !.cmdlineTools = "full"])
     \/ Rejects(Cmd("cmdline-tools", "unzip", <<"commandlinetools.zip">>), fs)
     \/ Rejects(Cmd("cmdline-tools", "unzip", <<"commandlinetools.zip">>),
                [fs EXCEPT !.cmdlineDir = TRUE, !.cmdlineTools = "partial"])
  /\ UNCHANGED <<env, failedMsg>>
  /\ Frame

\* lines 55-58: io.rmRF('commandlinetools.zip'), core.addPath(...)
CmdlineRm ==
  /\ pc = "cmdline_rm"
  /\ \/ /\ Succeeds(Cmd("cmdline-tools", "rmRF", <<"commandlinetools.zip">>), "markers",
                    [fs EXCEPT !.cmdZip = FALSE])
        /\ env' = [env EXCEPT !.PATH = Some(AddPath(CmdlineToolsPaths(env.ANDROID_HOME[1]), env.PATH))]
     \/ /\ Rejects(Cmd("cmdline-tools", "rmRF", <<"commandlinetools.zip">>), fs)
        /\ UNCHANGED env
  /\ UNCHANGED failedMsg
  /\ Frame

\* lines 61-71: the two license marker files; fs.writeFileSync throws when the
\* licenses directory does not exist.
WriteMarkers ==
  /\ pc = "markers"
  /\ LET preview == Cmd("markers", "writeFile", <<"android-sdk-preview-license", PREVIEW_LICENSE_HASH>>)
         armDbt  == Cmd("markers", "writeFile", <<"android-sdk-arm-dbt-license", ARM_DBT_LICENSE_HASH>>)
         w1 == WritesPreviewLicense
         w2 == WritesArmDbtLicense
         log1 == IF w1 THEN Append(log, preview) ELSE log
         fs1  == IF w1 THEN [fs EXCEPT !.previewLicense = PREVIEW_LICENSE_HASH] ELSE fs
     IN  IF w1 /\ ~fs.licensesDir
           THEN /\ log' = Append(log, [preview EXCEPT !.ok = FALSE])
                /\ pc' = "rejected"
                /\ UNCHANGED fs
           ELSE IF w2 /\ ~fs.licensesDir
             THEN /\ log' = Append(log1, [armDbt EXCEPT !.ok = FALSE])
                  /\ fs' = fs1
                  /\ pc' = "rejected"
             ELSE /\ log' = IF w2 THEN Append(log1, armDbt) ELSE log1
                  /\ fs' = IF w2 THEN [fs1 EXCEPT !.armDbtLicense = ARM_DBT_LICENSE_HASH] ELSE fs1
                  /\ pc' = "packages"
  /\ UNCHANGED <<env, failedMsg>>
  /\ Frame

\* lines 73-75: sdkmanager --install 'build-tools;30.0.0' platform-tools 'platforms;android-N'
InstallPackages ==
  /\ pc = "packages"
  /\ \/ Succeeds(Cmd("packages", "sdkmanager-install", PackagesArg), "emulator", fs)
     \/ Rejects(Cmd("packages", "sdkmanager-install", PackagesArg), fs)
  /\ UNCHANGED <<env, failedMsg>>
  /\ Frame

\* lines 76-78: curl -fo emulator.zip <url of the build>
EmulatorCurl ==
  /\ pc = "emulator"
  /\ UsesPinnedEmulator
  /\ \/ Succeeds(Cmd("emulator", "curl", EmulatorUrl), "emu_rm_dir",
                 [fs EXCEPT !.emuZip = params.emulatorBuild])
     \/ Rejects(Cmd("emulator", "curl", EmulatorUrl), fs)
  /\ UNCHANGED <<env, failedMsg>>
  /\ Frame

\* Variant: the removal leaves the old emulator directory in place.
EmulatorRmDir_KeepsOld ==
  /\ pc = "emu_rm_dir"
  /\ \/ Succeeds(Cmd("emulator", "rmRF", <<"emulator">>), "emu_unzip", fs)
     \/ Rejects(Cmd("emulator", "rmRF", <<"emulator">>), fs)
  /\ UNCHANGED <<env, failedMsg>>
  /\ Frame

\* line 79: io.rmRF(<sdk-root>/emulator)
EmulatorRmDir ==
  /\ pc = "emu_rm_dir"
  /\ \/ Succeeds(Cmd("emulator", "rmRF", <<"emulator">>), "emu_unzip", [fs EXCEPT !.emulator = {}])
     \/ Rejects(Cmd("emulator", "rmRF", <<"emulator">>), fs)
  /\ UNCHANGED <<env, failedMsg>>
  /\ Frame

\* line 80: unzip -q emulator.zip -d <sdk-root>
EmulatorUnzip ==
  /\ pc = "emu_unzip"
  /\ \/ Succeeds(Cmd("emulator", "unzip", <<"emulator.zip">>), "emu_rm_zip",
                 [fs EXCEPT !.root = TRUE, !.emulator = @ \cup {fs.emuZip}])
     \/ Rejects(Cmd("emulator", "unzip", <<"emulator.zip">>), fs)
  /\ UNCHANGED <<env, failedMsg>>
  /\ Frame

\* line 81: io.rmRF('emulator.zip')
EmulatorRmZip ==
  /\ pc = "emu_rm_zip"
  /\ \/ Succeeds(Cmd("emulator", "rmRF", <<"emulator.zip">>), "system_image", [fs EXCEPT !.emuZip = ""])
     \/ Rejects(Cmd("emulator", "rmRF", <<"emulator.zip">>), fs)
  /\ UNCHANGED <<env, failedMsg>>
  /\ Frame

\* lines 82-85: sdkmanager --install emulator
EmulatorLatest ==
  /\ pc = "emulator"
  /\ ~UsesPinnedEmulator
  /\ \/ Succeeds(Cmd("emulator", "sdkmanager-install", <<"emulator">>), "system_image",
                 [fs EXCEPT !.emulator = {"latest"}])
     \/ Rejects(Cmd("emulator", "sdkmanager-install", <<"emulator">>), fs)
  /\ UNCHANGED <<env, failedMsg>>
  /\ Frame

\* lines 86-87: sdkmanager --install 'system-images;android-N;target;arch'
InstallSystemImage ==
  /\ pc = "system_image"
  /\ \/ Succeeds(Cmd("system-image", "sdkmanager-install", SystemImageArg), "ndk", fs)
     \/ Rejects(Cmd("system-image", "sdkmanager-install", SystemImageArg), fs)
  /\ UNCHANGED <<env, failedMsg>>
  /\ Frame

\* lines 89-92: sdkmanager --install 'ndk;<version>'
InstallNdk ==
  /\ pc = "ndk"
  /\ IF InstallsNdk
       THEN \E ok \in BOOLEAN :
              IF ok THEN Succeeds(Cmd("ndk", "sdkmanager-install", NdkArg), "cmake", fs)
                    ELSE Rejects(Cmd("ndk", "sdkmanager-install", NdkArg), fs)
       ELSE /\ pc' = "cmake"
            /\ UNCHANGED <<log, fs>>
  /\ UNCHANGED <<env, failedMsg>>
  /\ Frame

\* lines 93-97: sdkmanager --install 'cmake;<version>', return
InstallCmake ==
  /\ pc = "cmake"
  /\ IF InstallsCmake
       THEN \E ok \in BOOLEAN :
              IF ok THEN Succeeds(Cmd("cmake", "sdkmanager-install", CmakeArg), "done", fs)
                    ELSE Rejects(Cmd("cmake", "sdkmanager-install", CmakeArg), fs)
       ELSE /\ pc' = "done"
            /\ UNCHANGED <<log, fs>>
  /\ UNCHANGED <<env, failedMsg>>
  /\ Frame

----------------------------------------------------------------------------
(* The job: a runner in some starting state, on which the action is run     *)
(* up to MaxRuns times.                                                      *)

Init ==
  /\ platform \in Platforms
  /\ freshInput \in FreshInputs
  /\ env \in [ANDROID_HOME : {Undefined, Some(<<>>), Some(SDK_ROOT)},
              ANDROID_SDK_HOME : {Undefined},
              PATH : InitialPaths]
  /\ fs \in InitialFs
  /\ params = NoParams
  /\ start = [fs |-> fs, env |-> env]
  /\ pc = "idle"
  /\ log = <<>>
  /\ failedMsg = ""
  /\ runs = 0
  /\ prev = "idle"
  /\ installed = Undefined
  /\ licenses = Undefined

Next ==
  \/ Invoke
  \/ BaseBackup \/ BaseCurl \/ BaseUnzip \/ BaseRm \/ BaseMkdir
  \/ LicMkdirHome \/ LicTouch \/ LicMkdirLicenses \/ LicAccept
  \/ Ownership
  \/ CmdlineMkdir \/ CmdlineCurl \/ CmdlineUnzip \/ CmdlineRm
  \/ WriteMarkers
  \/ InstallPackages
  \/ EmulatorCurl \/ EmulatorRmDir \/ EmulatorUnzip \/ EmulatorRmZip \/ EmulatorLatest
  \/ InstallSystemImage
  \/ InstallNdk
  \/ InstallCmake

Spec == Init /\ [][Next]_vars

----------------------------------------------------------------------------
(* Vocabulary of the properties *)

RunEnded == pc \in {"idle", "done", "failed", "rejected"}

StepRank(step) ==
  CASE step = "base" -> 1
    [] step = "licenses" -> 2
    [] step = "ownership" -> 3
    [] step = "cmdline-tools" -> 4
    [] step = "markers" -> 5
    [] step = "packages" -> 6
    [] step = "emulator" -> 7
    [] step = "system-image" -> 8
    [] step = "ndk" -> 9
    [] step = "cmake" -> 10

\* The entries of the log that satisfy Test, in order.
Entries(Test(_)) == SelectSeq(log, Test)

\* The current call got as far as the step of rank r (it may have failed in it).
ReachedStep(r, pcs) ==
  \/ pc \in pcs
  \/ pc = "rejected" /\ log # <<>> /\ StepRank(log[Len(log)].step) >= r

\* The current call got past the step of rank r.
PassedStep(r, pcs) ==
  \/ pc \in pcs
  \/ pc = "rejected" /\ log # <<>> /\ StepRank(log[Len(log)].step) > r

PcsFromCmdline ==
  {"cmdline", "cmdline_curl", "cmdline_unzip", "cmdline_rm", "markers", "packages", "emulator",
   "emu_rm_dir", "emu_unzip", "emu_rm_zip", "system_image", "ndk", "cmake", "done"}
PcsFromPackages ==
  {"packages", "emulator", "emu_rm_dir", "emu_unzip", "emu_rm_zip", "system_image", "ndk", "cmake", "done"}
PcsFromSystemImage == {"system_image", "ndk", "cmake", "done"}

IsWrite(e, file) == e.cmd = "writeFile" /\ e.arg[1] = file

----------------------------------------------------------------------------
(* C1 *)

\* C1: a call made while ANDROID_HOME is unset or empty signals the
\* configuration error through core.setFailed and returns at once: it runs no
\* external command, leaves the filesystem as it was and exports no
\* environment variable, on every platform and for all parameters.  Stated on
\* steps: while ANDROID_HOME is missing, every step is such a call.
C1_NoSideEffectWithoutHome ==
  [][ ~Truthy(env.ANDROID_HOME) =>
        /\ runs' = runs + 1
        /\ pc' = "failed"
        /\ failedMsg' = "ANDROID_HOME is a required environment variable and is not set."
        /\ log' = <<>>
        /\ fs' = fs
        /\ env' = env ]_vars

\* Witness of C1: a second call with ANDROID_HOME empty (not merely unset) has
\* failed on a runner that had an SDK directory to touch.
C1_Witness ==
  /\ env.ANDROID_HOME = Some(<<>>)
  /\ pc = "failed"
  /\ runs = 2
  /\ fs.root
  /\ platform = "darwin"

----------------------------------------------------------------------------
(* C2 *)

\* C2: a call that follows a successfully completed call, on the filesystem
\* that call left, runs nothing of the Base Installer, nothing of the License
\* Acceptor and nothing of the command-line-tools installation, and writes no
\* license marker file that was present when it started.
C2_SecondRunSkipsInstalls ==
  (prev = "done" /\ pc # "idle") =>
    /\ start.fs.root /\ start.fs.cmdlineDir
    /\ \A i \in DOMAIN log :
         /\ log[i].step \notin {"base", "licenses", "cmdline-tools"}
         /\ IsWrite(log[i], "android-sdk-preview-license") => start.fs.previewLicense = ABSENT
         /\ IsWrite(log[i], "android-sdk-arm-dbt-license") => start.fs.armDbtLicense = ABSENT
    /\ start.fs.previewLicense # ABSENT => fs.previewLicense = start.fs.previewLicense
    /\ start.fs.armDbtLicense # ABSENT => fs.armDbtLicense = start.fs.armDbtLicense

\* Witness of C2: the second of two completed calls of a job whose first call
\* ran the Base Installer (it exported ANDROID_SDK_HOME) and wrote the markers.
C2_Witness ==
  /\ prev = "done"
  /\ pc = "done"
  /\ runs = 2
  /\ platform = "linux"
  /\ IsDefined(env.ANDROID_SDK_HOME)
  /\ start.fs.previewLicense = PREVIEW_LICENSE_HASH
  /\ log # <<>>

----------------------------------------------------------------------------
(* C3 *)

\* C3: between calls, whatever calls came before and wherever they failed, an
\* existing SDK root means the base SDK is fully unpacked, sdk_home and
\* licenses exist and the licenses were accepted; an existing cmdline-tools
\* directory means the command-line tools are fully unpacked in it.
C3_MarkersMeanDone ==
  RunEnded =>
    /\ fs.root => /\ fs.baseSdk = "full"
                  /\ fs.sdkHome
                  /\ fs.licensesDir
                  /\ fs.licensesAccepted
    /\ fs.cmdlineDir => fs.cmdlineTools = "full"

----------------------------------------------------------------------------
(* C4 *)

\* The command of a log entry, whatever its outcome.
Command(e) == [e EXCEPT !.ok = TRUE]

\* C4: within a call the steps run in the order base install, license
\* acceptance, ownership, command-line tools, license markers, packages,
\* emulator, system image, NDK, CMake; no command is run twice; a command that
\* fails is the last one of the call, which then is in the failed state; and a
\* call that has ended does nothing more: what it did stays as it is until the
\* next call.
C4_ForwardOnly ==
  /\ [] /\ \A i \in DOMAIN log :
             /\ i < Len(log) => StepRank(log[i].step) <= StepRank(log[i + 1].step)
             /\ \A j \in DOMAIN log : i < j => Command(log[i]) # Command(log[j])
             /\ ~log[i].ok => i = Len(log) /\ pc = "rejected"
        /\ pc = "rejected" => log # <<>> /\ ~log[Len(log)].ok
        /\ pc = "done" => \A i \in DOMAIN log : log[i].ok
  /\ [][ /\ runs' = runs => /\ ~RunEnded
                            /\ Len(log') >= Len(log)
                            /\ SubSeq(log', 1, Len(log)) = log
         /\ (runs' = runs /\ pc' = "rejected") =>
               /\ Len(log') > Len(log)
               /\ fs'.root = (fs.root \/ fs'.baseSdk = "partial")
               /\ [fs' EXCEPT !.root = fs.root, !.baseSdk = fs.baseSdk,
                              !.cmdlineDir = fs.cmdlineDir, !.cmdlineTools = fs.cmdlineTools] = fs
       ]_vars

\* Witness of C4: a cold call that failed in the emulator step, after the
\* earlier steps had run.
C4_Witness ==
  /\ pc = "rejected"
  /\ ~start.fs.root
  /\ Len(log) > 1
  /\ log[1].step = "base"
  /\ log[Len(log)].step = "emulator"
  /\ fs.cmdlineTools = "full"

----------------------------------------------------------------------------
(* C5 *)

IsEffect(e) ==
  e.cmd \in {"curl", "unzip", "sdkmanager-licenses", "chown", "writeFile", "sdkmanager-install"}

ColdRunEffects ==
  << Cmd("base", "curl", <<"https://dl.google.com/android/repository/sdk-tools-linux-4333796.zip">>),
     Cmd("base", "unzip", <<"android-sdk.zip">>),
     Cmd("licenses", "sdkmanager-licenses", <<>>),
     Cmd("ownership", "chown", <<>>),
     Cmd("cmdline-tools", "curl",
         <<"https://dl.google.com/android/repository/commandlinetools-linux-6609375_latest.zip">>),
     Cmd("cmdline-tools", "unzip", <<"commandlinetools.zip">>),
     Cmd("markers", "writeFile",
         <<"android-sdk-preview-license", "\n84831b9409646a918e30573bab4c9c91346d8abd">>),
     Cmd("markers", "writeFile",
         <<"android-sdk-arm-dbt-license", "\n859f317696f67ef3d7f30a50a5560e7834b43903">>),
     Cmd("packages", "sdkmanager-install",
         <<"build-tools;30.0.0", "platform-tools", "platforms;android-30">>),
     Cmd("emulator", "sdkmanager-install", <<"emulator">>),
     Cmd("system-image", "sdkmanager-install", <<"system-images;android-30;google_apis;x86_64">>) >>

IsColdScenario ==
  /\ params = [apiLevel |-> 30, target |-> "google_apis", arch |-> "x86_64",
               emulatorBuild |-> "", ndkVersion |-> "", cmakeVersion |-> ""]
  /\ platform # "darwin"
  /\ Truthy(env.ANDROID_HOME)
  /\ ~start.fs.root
  /\ freshInput = ""

\* C5: installAndroidSdk(30, google_apis, x86_64) on a non-macOS runner whose
\* SDK root is absent, with the fresh-installation input unset, when every
\* command succeeds: the downloads, unpacks, license acceptance, chown, marker
\* writes and package-manager calls are exactly ColdRunEffects, in that order.
C5_ColdRunOrdering ==
  (IsColdScenario /\ pc = "done") => Entries(IsEffect) = ColdRunEffects

\* Witness of C5: such a call has completed.
C5_Witness ==
  /\ IsColdScenario
  /\ pc = "done"
  /\ platform = "linux"
  /\ fs.baseSdk = "full"

----------------------------------------------------------------------------
(* C6 *)

IsChown(e) == e.cmd = "chown"
IsDownload(e) == e.cmd = "curl"

MacUrls ==
  { <<"https://dl.google.com/android/repository/sdk-tools-darwin-4333796.zip">>,
    <<"https://dl.google.com/android/repository/commandlinetools-mac-6609375_latest.zip">>,
    <<"https://dl.google.com/android/repository/emulator-", "darwin", "-", params.emulatorBuild, ".zip">> }

LinuxUrls ==
  { <<"https://dl.google.com/android/repository/sdk-tools-linux-4333796.zip">>,
    <<"https://dl.google.com/android/repository/commandlinetools-linux-6609375_latest.zip">>,
    <<"https://dl.google.com/android/repository/emulator-", "linux", "-", params.emulatorBuild, ".zip">> }

\* C6: on darwin every download of the call uses a macOS URL and chown is
\* never run; on any other platform every download uses a Linux URL, and
\* chown is run exactly once by every call that gets to the ownership step
\* (so by every call that is past it), unless the fresh-installation input is
\* set, and then it is never run.
C6_PlatformBranching ==
  /\ \A i \in DOMAIN log :
       IsDownload(log[i]) => log[i].arg \in (IF platform = "darwin" THEN MacUrls ELSE LinuxUrls)
  /\ platform = "darwin" => Len(Entries(IsChown)) = 0
  /\ platform # "darwin" =>
       IF freshInput # ""
         THEN Len(Entries(IsChown)) = 0
         ELSE /\ Len(Entries(IsChown)) <= 1
              /\ ReachedStep(4, PcsFromCmdline) => Len(Entries(IsChown)) = 1

\* Witness of C6: a completed call on win32 (neither darwin nor linux) that
\* downloaded a pinned emulator and ran chown.
C6_Witness ==
  /\ platform = "win32"
  /\ freshInput = ""
  /\ pc = "done"
  /\ Len(Entries(IsChown)) = 1
  /\ \E i \in DOMAIN log : log[i].step = "emulator" /\ IsDownload(log[i])
  /\ \E i \in DOMAIN log : log[i].step = "base" /\ IsDownload(log[i])

----------------------------------------------------------------------------
(* C7 *)

IsPreviewWrite(e) == IsWrite(e, "android-sdk-preview-license") /\ e.ok
IsArmDbtWrite(e) == IsWrite(e, "android-sdk-arm-dbt-license") /\ e.ok

\* C7: on a platform other than darwin, a call that started with neither
\* marker file present and got to the package-install step has written
\* licenses/android-sdk-preview-license, whatever the API level, and has
\* written licenses/android-sdk-arm-dbt-license if and only if apiLevel is 30.
C7_ApiLevel30Markers ==
  ( /\ platform # "darwin"
    /\ start.fs.previewLicense = ABSENT
    /\ start.fs.armDbtLicense = ABSENT
    /\ ReachedStep(6, PcsFromPackages) ) =>
      /\ Len(Entries(IsPreviewWrite)) = 1
      /\ fs.previewLicense = "\n84831b9409646a918e30573bab4c9c91346d8abd"
      /\ params.apiLevel = 30 =>
           /\ Len(Entries(IsArmDbtWrite)) = 1
           /\ fs.armDbtLicense = "\n859f317696f67ef3d7f30a50a5560e7834b43903"
      /\ params.apiLevel # 30 =>
           /\ Len(Entries(IsArmDbtWrite)) = 0
           /\ fs.armDbtLicense = ABSENT

\* Witness of C7: API level 29 on linux, only the first marker written.
C7_Witness ==
  /\ platform = "linux"
  /\ params.apiLevel = 29
  /\ start.fs.previewLicense = ABSENT
  /\ start.fs.armDbtLicense = ABSENT
  /\ pc = "done"
  /\ fs.previewLicense = PREVIEW_LICENSE_HASH
  /\ fs.armDbtLicense = ABSENT

----------------------------------------------------------------------------
(* C8 *)

IsMarkerWrite(e) == e.cmd = "writeFile"

\* A marker file that existed when the call started is as it was.
ExistingMarkersKept ==
  /\ start.fs.previewLicense # ABSENT => fs.previewLicense = start.fs.previewLicense
  /\ start.fs.armDbtLicense # ABSENT => fs.armDbtLicense = start.fs.armDbtLicense
  /\ \A i \in DOMAIN log :
       /\ IsWrite(log[i], "android-sdk-preview-license") => start.fs.previewLicense = ABSENT
       /\ IsWrite(log[i], "android-sdk-arm-dbt-license") => start.fs.armDbtLicense = ABSENT

\* C8 as claimed: on darwin no call writes either marker file, for any API
\* level; and on every platform an existing marker file is never rewritten.
C8_MarkersLinuxOnly ==
  /\ platform = "darwin" => Len(Entries(IsMarkerWrite)) = 0
  /\ ExistingMarkersKept

\* C8 as amended: on darwin no call writes android-sdk-preview-license; the
\* file android-sdk-arm-dbt-license is written on every platform, darwin
\* included, by a call with apiLevel 30 that finds it absent and gets to the
\* package-install step, and by no other call; and on every platform an
\* existing marker file is never rewritten.
C8_MarkersAmended ==
  /\ platform = "darwin" =>
       \A i \in DOMAIN log : ~IsWrite(log[i], "android-sdk-preview-license")
  /\ \A i \in DOMAIN log :
       IsWrite(log[i], "android-sdk-arm-dbt-license") =>
         params.apiLevel = 30 /\ start.fs.armDbtLicense = ABSENT
  /\ ( /\ params.apiLevel = 30
       /\ start.fs.armDbtLicense = ABSENT
       /\ ReachedStep(6, PcsFromPackages) ) =>
         /\ Len(Entries(IsArmDbtWrite)) = 1
         /\ fs.armDbtLicense = "\n859f317696f67ef3d7f30a50a5560e7834b43903"
  /\ ExistingMarkersKept

\* Witness of C8: a completed call on darwin with API level 30 wrote the
\* arm-dbt marker and left the other one, which existed, as it was.
C8_Witness ==
  /\ platform = "darwin"
  /\ params.apiLevel = 30
  /\ pc = "done"
  /\ start.fs.armDbtLicense = ABSENT
  /\ fs.armDbtLicense = ARM_DBT_LICENSE_HASH
  /\ Len(Entries(IsArmDbtWrite)) = 1
  /\ fs.previewLicense = ABSENT

----------------------------------------------------------------------------
(* C9 *)

IsEmulatorStep(e) == e.step = "emulator"
IsLatestEmulatorInstall(e) == e.cmd = "sdkmanager-install" /\ e.arg = <<"emulator">>

PinnedEmulatorCommands ==
  << Cmd("emulator", "curl",
         << "https://dl.google.com/android/repository/emulator-",
            IF platform = "darwin" THEN "darwin" ELSE "linux", "-", params.emulatorBuild, ".zip" >>),
     Cmd("emulator", "rmRF", <<"emulator">>),
     Cmd("emulator", "unzip", <<"emulator.zip">>),
     Cmd("emulator", "rmRF", <<"emulator.zip">>) >>

\* C9: with an emulator build id, the emulator step is: download the archive
\* of that build and platform, remove <sdk-root>/emulator, unpack the archive,
\* delete the archive, in this order, so that after the unpacking the
\* directory holds that build and nothing older; 'sdkmanager --install
\* emulator' is never run.  Without a build id, the step is one 'sdkmanager
\* --install emulator', with no download and no removal.  A call that is past
\* the step has run all of it; a call that failed in it has run a prefix.
C9_EmulatorSelection ==
  LET emu == Entries(IsEmulatorStep)
      expected == IF params.emulatorBuild # ""
                    THEN PinnedEmulatorCommands
                    ELSE << Cmd("emulator", "sdkmanager-install", <<"emulator">>) >>
  IN  /\ Len(emu) <= Len(expected)
      /\ \A i \in DOMAIN emu : Command(emu[i]) = expected[i]
      /\ PassedStep(7, PcsFromSystemImage) => emu = expected
      /\ params.emulatorBuild # "" =>
           /\ Len(Entries(IsLatestEmulatorInstall)) = 0
           /\ (Len(emu) >= 3 /\ emu[3].ok) => fs.emulator = {params.emulatorBuild}
           /\ PassedStep(7, PcsFromSystemImage) => fs.emuZip = ""
      /\ (params.emulatorBuild = "" /\ pc # "idle") =>
           /\ fs.emuZip = start.fs.emuZip
           /\ \A i \in DOMAIN emu : emu[i].cmd \notin {"curl", "rmRF", "unzip"}

\* Witness of C9: a pinned build replaced an old emulator directory.
C9_Witness ==
  /\ params.emulatorBuild = "6110076"
  /\ start.fs.emulator = {"old"}
  /\ pc = "done"
  /\ fs.emulator = {"6110076"}
  /\ fs.emuZip = ""

----------------------------------------------------------------------------
(* installBaseSdk's rewrite of PATH, over a bounded set of prior PATH values: *)
(* the first call of a job on a cold linux runner, about to run line 116.     *)

PathEntries ==
  { <<>>,                                                   \* an empty entry
    <<"/", "b", "i", "n">>,                                 \* /bin
    <<"/", "A", "n", "d", "r", "o", "i", "d">>,             \* /Android
    <<"/", "o", "/", "A", "n", "d", "r", "o", "i", "d", "/", "t">>,  \* /o/Android/t
    <<"/", "a", "n", "d", "r", "o", "i", "d">> }            \* /android

\* Every PATH of one to MaxPathEntries entries, and no PATH at all.
BoundedPaths ==
  {Undefined} \cup
  { Some(Join(es)) : es \in UNION { [1..k -> PathEntries] : k \in 1..MaxPathEntries } }

InitPath ==
  /\ platform = "linux"
  /\ freshInput = ""
  /\ params = [apiLevel |-> 30, target |-> "google_apis", arch |-> "x86_64",
               emulatorBuild |-> "", ndkVersion |-> "", cmakeVersion |-> ""]
  /\ \E p \in BoundedPaths :
       /\ start = [fs |-> ColdFs,
                   env |-> [ANDROID_HOME |-> Some(SDK_ROOT), ANDROID_SDK_HOME |-> Undefined, PATH |-> p]]
       /\ env = [ANDROID_HOME |-> Some(SDK_ROOT), ANDROID_SDK_HOME |-> Some(SDK_ROOT \o DIR_SDK_HOME),
                 PATH |-> p]
  /\ fs = [ColdFs EXCEPT !.root = TRUE, !.baseSdk = "full"]
  /\ pc = "base_mkdir"
  /\ log = << Cmd("base", "curl", <<BASE_ANDROID_SDK_URL_LINUX>>),
              Cmd("base", "unzip", <<"android-sdk.zip">>),
              Cmd("base", "rm", <<"android-sdk.zip">>) >>
  /\ failedMsg = ""
  /\ runs = 1
  /\ prev = "idle"
  /\ installed = Undefined
  /\ licenses = Undefined

NextPath == BaseMkdir

SpecPath == InitPath /\ [][NextPath]_vars

----------------------------------------------------------------------------
(* C10 *)

Range(a) == { a[i] : i \in DOMAIN a }

\* C10: once installBaseSdk has exported PATH, its entries are the five tool
\* directories of the SDK root followed by exactly the prior entries that do
\* not contain "Android", in their prior order: no prior entry with "Android"
\* is among them and no prior entry without it is missing.
C10_PathHygiene ==
  pc = "lic_mkdir_home" =>
    LET prior == Split(OrEmpty(start.env.PATH))
        exported == Split(env.PATH[1])
    IN  /\ exported = ExtraPathDirs(SDK_ROOT) \o SelectSeq(prior, NotAndroid)
        /\ \A i \in DOMAIN prior :
             IF Includes(prior[i], ANDROID)
               THEN prior[i] \notin Range(exported)
               ELSE prior[i] \in Range(exported)

----------------------------------------------------------------------------
(* C11 *)

PathDirs == Range(Split(OrEmpty(env.PATH)))

\* A directory of the SDK root that holds sdkmanager is on PATH.
PackageManagerOnPath ==
  \/ SDK_ROOT \o DIR_CMDLINE_TOOLS \o DIR_TOOLS_BIN \in PathDirs
  \/ SDK_ROOT \o DIR_TOOLS_BIN \in PathDirs

PlatformToolsOnPath == SDK_ROOT \o DIR_PLATFORM_TOOLS \in PathDirs

\* C11: from every starting filesystem, cold or warm, a call that is at the
\* package-manager install steps or has completed has the SDK root's package
\* manager directory and its platform-tools directory on PATH.
C11_ToolDirsOnPath ==
  pc \in PcsFromPackages => PackageManagerOnPath /\ PlatformToolsOnPath

----------------------------------------------------------------------------
(* The result checks of lines 28-37, for any boolean the helpers may return.

   installBaseSdk and acceptLicenses are declared to return a boolean and
   installAndroidSdk tests it.  SpecAnyResult lets each helper return either
   boolean, so that both outcomes of the tests on lines 29 and 34 are
   exercised; under Spec, where the helpers return what their code returns,
   the failing outcomes do not occur (see C14). *)

InitCold ==
  /\ Init
  /\ env.ANDROID_HOME = Some(SDK_ROOT)
  /\ ~fs.root

BaseMkdirAnyResult == \E result \in BOOLEAN : BaseMkdirReturning(result)

LicAcceptAnyResult == \E result \in BOOLEAN : LicAcceptReturning(result)

NextAnyResult ==
  \/ Invoke
  \/ BaseBackup \/ BaseCurl \/ BaseUnzip \/ BaseRm \/ BaseMkdirAnyResult
  \/ LicMkdirHome \/ LicTouch \/ LicMkdirLicenses \/ LicAcceptAnyResult
  \/ Ownership
  \/ CmdlineMkdir \/ CmdlineCurl \/ CmdlineUnzip \/ CmdlineRm
  \/ WriteMarkers
  \/ InstallPackages
  \/ EmulatorCurl \/ EmulatorRmDir \/ EmulatorUnzip \/ EmulatorRmZip \/ EmulatorLatest
  \/ InstallSystemImage
  \/ InstallNdk
  \/ InstallCmake

SpecAnyResult == InitCold /\ [][NextAnyResult]_vars

OnlySteps(steps) == \A i \in DOMAIN log : log[i].step \in steps

BaseReportedFailure == installed = Some(FALSE)

LicensesReportedFailure == installed = Some(TRUE) /\ licenses = Some(FALSE)

\* C12: on the cold path, once the Base Installer has reported failure the call
\* has ended with the fatal message 'Could not install base Android SDK.' and
\* has run nothing but the Base Installer's commands (the License Acceptor has
\* not been invoked); once the Base Installer has reported success and the
\* License Acceptor failure, the call has ended with the fatal message 'Could
\* not accept Android SDK licenses.' and has run nothing but the commands of
\* the two helpers (no ownership normalization, no later step).
C12_CheckedFailure ==
  /\ BaseReportedFailure =>
        /\ ~start.fs.root
        /\ pc = "failed"
        /\ failedMsg = "Could not install base Android SDK."
        /\ licenses = Undefined
        /\ OnlySteps({"base"})
  /\ LicensesReportedFailure =>
        /\ ~start.fs.root
        /\ pc = "failed"
        /\ failedMsg = "Could not accept Android SDK licenses."
        /\ OnlySteps({"base", "licenses"})
  /\ (installed = Some(TRUE) /\ licenses = Some(TRUE)) => failedMsg = ""

\* The License Acceptor has reported failure after a successful Base Installer.
C12_Witness ==
  /\ LicensesReportedFailure
  /\ pc = "failed"
  /\ log # <<>>
  /\ log[Len(log)].cmd = "sdkmanager-licenses"

\* The Base Installer has reported failure.
C12_WitnessBase ==
  /\ BaseReportedFailure
  /\ pc = "failed"
  /\ log # <<>>
  /\ log[Len(log)] = Cmd("base", "mkdir", <<"sdk_home">>)

----------------------------------------------------------------------------
(* C13 *)

\* C13: whenever a call is about to write a license marker file under
\* <sdk-root>/licenses (lines 61-71), the directory <sdk-root>/licenses exists,
\* on the cold path and on the warm path alike.
C13_LicensesDirBeforeMarkers ==
  (pc = "markers" /\ (WritesPreviewLicense \/ WritesArmDbtLicense)) => fs.licensesDir

----------------------------------------------------------------------------
(* C14 *)

HelperMessages ==
  {"Could not install base Android SDK.", "Could not accept Android SDK licenses."}

LastEntryFailed == log # <<>> /\ ~log[Len(log)].ok

\* C14: whenever the Base Installer or the License Acceptor has returned, it
\* has reported success; no call ever signals 'Could not install base Android
\* SDK.' or 'Could not accept Android SDK licenses.'; core.setFailed is used
\* only by a call made with ANDROID_HOME missing, and every other failure is a
\* rejection of the call, caused by a failed command, with no message given
\* to core.setFailed.
C14_HelpersAlwaysSucceed ==
  /\ installed \in {Undefined, Some(TRUE)}
  /\ licenses \in {Undefined, Some(TRUE)}
  /\ failedMsg \notin HelperMessages
  /\ pc = "failed" <=> failedMsg # ""
  /\ pc = "failed" => ~Truthy(start.env.ANDROID_HOME)
  /\ pc = "rejected" => LastEntryFailed

\* Witness of C14: the License Acceptor's last command failed after the Base
\* Installer had returned; the call is rejected and nothing was signalled.
C14_Witness ==
  /\ pc = "rejected"
  /\ installed = Some(TRUE)
  /\ licenses = Undefined
  /\ failedMsg = ""
  /\ log[Len(log)] = [Cmd("licenses", "sdkmanager-licenses", <<>>) EXCEPT !.ok = FALSE]

----------------------------------------------------------------------------
(* installBaseSdk on its own, lines 99-131.

   installAndroidSdk calls installBaseSdk only when the SDK root does not
   exist (line 25), and sdk_home lies under the SDK root, so under Spec the
   test on line 109 always fails.  SpecBase enters installBaseSdk on every
   filesystem it can be handed, among them those on which sdk_home exists,
   to check what lines 109-116 do with it. *)

\* What earlier backups may hold.
OldBackups == {<<>>, <<[repositoriesCfg |-> TRUE]>>}

BaseFs ==
  {ColdFs} \cup
  { [ColdFs EXCEPT !.root = TRUE, !.sdkHome = TRUE, !.repositoriesCfg = c,
                   !.baseSdk = s, !.backups = b] :
      c \in BOOLEAN, s \in {"none", "full"}, b \in OldBackups }

InitBase ==
  /\ platform \in Platforms
  /\ freshInput = ""
  /\ params = [apiLevel |-> 30, target |-> "google_apis", arch |-> "x86_64",
               emulatorBuild |-> "", ndkVersion |-> "", cmakeVersion |-> ""]
  /\ env \in [ANDROID_HOME : {Some(SDK_ROOT)},
              ANDROID_SDK_HOME : {Undefined},
              PATH : InitialPaths]
  /\ fs \in BaseFs
  /\ start = [fs |-> fs, env |-> env]
  /\ pc = "base_backup"
  /\ log = <<>>
  /\ failedMsg = ""
  /\ runs = 1
  /\ prev = "idle"
  /\ installed = Undefined
  /\ licenses = Undefined

NextBase == BaseBackup \/ BaseCurl \/ BaseUnzip \/ BaseRm \/ BaseMkdir

SpecBase == InitBase /\ [][NextBase]_vars

IsRename(e) == e.step = "base" /\ e.cmd = "mv"

Renamed == log # <<>> /\ IsRename(log[1]) /\ log[1].ok

FreshHomeMade == log # <<>> /\ log[Len(log)] = Cmd("base", "mkdir", <<"sdk_home">>)

\* C15: when <sdk-root>/sdk_home exists as the Base Installer starts, the
\* first command the Base Installer runs is the rename of sdk_home to
\* sdk_home.backup.<timestamp>, before any download or unpacking; while the
\* rename has not succeeded the directory and its contents are as they were;
\* once it has, the backups are the earlier ones followed by one that holds
\* exactly what sdk_home held, at every later point of the run, and sdk_home
\* is absent until the final mkdir creates it empty.  When sdk_home does not
\* exist at the start, no rename is ever attempted and no backup appears.
C15_SdkHomeBackedUp ==
  /\ start.fs.sdkHome =>
        /\ log # <<>> => IsRename(log[1])
        /\ Entries(IsRename) = SubSeq(log, 1, IF log = <<>> THEN 0 ELSE 1)
        /\ ~Renamed =>
              /\ fs.sdkHome
              /\ fs.repositoriesCfg = start.fs.repositoriesCfg
              /\ fs.backups = start.fs.backups
        /\ Renamed =>
              /\ fs.backups = Append(start.fs.backups,
                                     [repositoriesCfg |-> start.fs.repositoriesCfg])
              /\ fs.sdkHome = FreshHomeMade
              /\ ~fs.repositoriesCfg
  /\ ~start.fs.sdkHome =>
        /\ Entries(IsRename) = <<>>
        /\ fs.backups = start.fs.backups

\* Witness of C15: the Base Installer has run to its end on a runner whose
\* sdk_home held a repositories.cfg and which already had one backup.
C15_Witness ==
  /\ start.fs.sdkHome
  /\ start.fs.repositoriesCfg
  /\ start.fs.backups # <<>>
  /\ Renamed
  /\ FreshHomeMade
  /\ pc = "lic_mkdir_home"

----------------------------------------------------------------------------
(* C16 *)

\* The fresh-installation flag as a boolean input reads: "true" sets it, ""
\* (not configured) and "false" do not.
FreshFlagSet == freshInput = "true"

\* C16: on a platform other than macOS, a call never runs chown when the
\* fresh-installation flag is set (configured as true), and runs it exactly
\* once, as soon as it gets to the ownership step, when the flag is not set
\* (not configured, or configured as false).
C16_OwnershipUnlessFresh ==
  platform # "darwin" =>
    IF FreshFlagSet
      THEN Len(Entries(IsChown)) = 0
      ELSE /\ Len(Entries(IsChown)) <= 1
           /\ ReachedStep(4, PcsFromCmdline) => Len(Entries(IsChown)) = 1

----------------------------------------------------------------------------
(* C17 *)

IsNdkInstall(e) == e.step = "ndk"
IsCmakeInstall(e) == e.step = "cmake"
IsOptionalInstall(e) == IsNdkInstall(e) \/ IsCmakeInstall(e)

SystemImageInstalled ==
  \E i \in DOMAIN log : log[i] = Cmd("system-image", "sdkmanager-install", SystemImageArg)

\* The current call is past the NDK step, or failed in it.
NdkStepTaken ==
  \/ pc \in {"cmake", "done"}
  \/ pc = "rejected" /\ log # <<>> /\ StepRank(log[Len(log)].step) >= 9

\* The current call is past the CMake step, or failed in it.
CmakeStepTaken ==
  \/ pc = "done"
  \/ pc = "rejected" /\ log # <<>> /\ StepRank(log[Len(log)].step) >= 10

\* What a call asks the package manager for after the system image, given
\* the versions supplied with the call.
OptionalInstalls ==
  (IF params.ndkVersion # ""
     THEN << Cmd("ndk", "sdkmanager-install", <<"ndk;" \o params.ndkVersion>>) >> ELSE <<>>)
  \o (IF params.cmakeVersion # ""
        THEN << Cmd("cmake", "sdkmanager-install", <<"cmake;" \o params.cmakeVersion>>) >> ELSE <<>>)

\* C17: the package manager is asked for the NDK and for CMake only after
\* the system image was installed, each at most once and by the exact
\* version supplied, the NDK before CMake; a call that has taken the NDK step
\* has asked for the NDK if and only if an NDK version was supplied, a call
\* that has taken the CMake step has asked for CMake if and only if a CMake
\* version was supplied, and a completed call has made exactly the supplied
\* requests, in that order, as its last commands.  With neither version
\* supplied a call that has installed the system image has run nothing after
\* it and has not failed.
C17_OptionalComponents ==
  LET opt == Entries(IsOptionalInstall)
      n   == Len(opt)
  IN  /\ n > 0 =>
            /\ SystemImageInstalled
            /\ SubSeq(log, Len(log) - n + 1, Len(log)) = opt
      /\ n <= Len(OptionalInstalls)
      /\ \A i \in 1..n : Command(opt[i]) = OptionalInstalls[i]
      /\ \A i \in 1..(n - 1) : opt[i].ok
      /\ NdkStepTaken => (Len(Entries(IsNdkInstall)) = 1 <=> params.ndkVersion # "")
      /\ CmakeStepTaken => (Len(Entries(IsCmakeInstall)) = 1 <=> params.cmakeVersion # "")
      /\ pc = "done" => opt = OptionalInstalls
      /\ (SystemImageInstalled /\ OptionalInstalls = <<>>) =>
            /\ pc \in {"ndk", "cmake", "done"}
            /\ log[Len(log)] = Cmd("system-image", "sdkmanager-install", SystemImageArg)

\* Witness of C17: a completed call with a CMake version but no NDK version.
C17_Witness ==
  /\ pc = "done"
  /\ params.ndkVersion = ""
  /\ params.cmakeVersion # ""
  /\ log[Len(log)] = Cmd("cmake", "sdkmanager-install", <<"cmake;3.10.2.4988404">>)
  /\ log[Len(log) - 1] = Cmd("system-image", "sdkmanager-install", SystemImageArg)

\* Both versions supplied, and neither: completed calls.
C17_WitnessBoth ==
  /\ pc = "done"
  /\ Len(Entries(IsOptionalInstall)) = 2

C17_WitnessNeither ==
  /\ pc = "done"
  /\ params.ndkVersion = "" /\ params.cmakeVersion = ""
  /\ log[Len(log)].step = "system-image"

====
